---- MODULE Spec2Model ----
(***************************************************************************)
(* Model of src/data.py: the PyPI "simple" index crawler.                  *)
(*   PackageCrawler  loads packages.json or (tries to) fetch the index.    *)
(*   get_links       one GET, then every anchor as (string, href).         *)
(*   Package         get_links, sort by filename, take the last, download  *)
(*                   it into a TemporaryDirectory, read its metadata.      *)
(* Python str values are sequences of one-character strings, so that       *)
(* comparison, endswith, rstrip and os.path.join are computed, not assumed.*)
(***************************************************************************)
EXTENDS Integers, Sequences, FiniteSets, TLC

\* ------------------------------------------------------------------ bounds
\* longest anchor list a fetched page holds
MaxLinks == 2
\* longest host part of an index root handed to _add_base_url
MaxHostLen == 3

\* ------------------------------------------------------------ str values
\* The characters that occur, in code point order ('-' < '.' < '/' < digits
\* < ':' < letters): str comparison in Python is by code point.
CodePointOrder ==
    << "-", ".", "/", "0", "1", "2", "3", "4", "5", "6", "7", "8", "9", ":",
       "a", "b", "c", "d", "e", "f", "g", "h", "i", "j", "k", "l", "m",
       "n", "o", "p", "q", "r", "s", "t", "u", "v", "w", "x", "y", "z" >>

Ord(c) == CHOOSE i \in 1..Len(CodePointOrder) : CodePointOrder[i] = c

\* None (an anchor without a single text child has .string None)
None == << "None" >>

\* a < b on two str values
StrLess(a, b) ==
    LET n == IF Len(a) < Len(b) THEN Len(a) ELSE Len(b)
        diff == { i \in 1..n : a[i] # b[i] }
    IN  IF diff = {} THEN Len(a) < Len(b)
        ELSE LET i == CHOOSE j \in diff : \A k \in diff : j <= k
             IN  Ord(a[i]) < Ord(b[i])

\* s.endswith(suffix)
EndsWith(s, suffix) ==
    /\ Len(suffix) <= Len(s)
    /\ SubSeq(s, Len(s) - Len(suffix) + 1, Len(s)) = suffix

\* s.startswith(prefix)
StartsWith(s, prefix) ==
    /\ Len(prefix) <= Len(s)
    /\ SubSeq(s, 1, Len(prefix)) = prefix

\* the set of characters of a str
CharsOf(s) == { s[i] : i \in 1..Len(s) }

\* s.rstrip(chars): drops trailing characters while they are IN the set chars
RECURSIVE RStrip(_, _)
RStrip(s, chars) ==
    IF s # << >> /\ s[Len(s)] \in CharsOf(chars)
    THEN RStrip(SubSeq(s, 1, Len(s) - 1), chars)
    ELSE s

\* ------------------------------------------------------------- literals
\* '/simple/', the argument of rstrip in _add_base_url
SimpleSuffix == << "/", "s", "i", "m", "p", "l", "e", "/" >>

Scheme == << "h", "t", "t", "p", "s", ":", "/", "/" >>

\* 'https://pypi.org/simple/', the default of url / repo_url
DefaultRepoUrl == Scheme \o << "p", "y", "p", "i", ".", "o", "r", "g" >> \o SimpleSuffix

\* another index root a caller passes
MirrorRepoUrl == Scheme \o << "m" >> \o SimpleSuffix

\* 'packages.json', the snapshot file, relative to the working directory
PackagesJson == << "p", "a", "c", "k", "a", "g", "e", "s", ".", "j", "s", "o", "n" >>

\* '.tar.gz' and '.whl', the two suffixes extract_metadata dispatches on
TarGzSuffix == << ".", "t", "a", "r", ".", "g", "z" >>
WhlSuffix == << ".", "w", "h", "l" >>

\* ------------------------------------------------------------ file system
\* the working directory, against which 'packages.json' resolves
Cwd == << "/", "w" >>

\* the directory TemporaryDirectory() creates its directory in, and that directory
TmpRoot == << "/", "t", "m", "p" >>
TmpDirPath == TmpRoot \o << "/", "t" >>

\* the absolute path of a path given to open / os.path.exists
Resolve(path) ==
    IF StartsWith(path, << "/" >>) THEN path ELSE Cwd \o << "/" >> \o path

SnapshotPath == Resolve(PackagesJson)

\* os.path.exists(path), fs a function from the paths of the files to their contents
OsPathExists(fs, path) == Resolve(path) \in DOMAIN fs

\* os.path.join(a, b): an absolute b discards a
OsPathJoin(a, b) ==
    IF StartsWith(b, << "/" >>) THEN b
    ELSE IF a = << >> \/ EndsWith(a, << "/" >>) THEN a \o b
    ELSE a \o << "/" >> \o b

\* the directory part of a path
DirName(path) ==
    LET slashes == { i \in 1..Len(path) : path[i] = "/" }
    IN  IF slashes = {} THEN << >>
        ELSE LET last == CHOOSE i \in slashes : \A j \in slashes : j <= i
             IN  IF last = 1 THEN << "/" >> ELSE SubSeq(path, 1, last - 1)

IsUnder(path, dir) == StartsWith(path, dir \o << "/" >>)

\* open(path, 'wb') ... f.write(content)
WriteFile(fs, path, content) ==
    [ p \in (DOMAIN fs) \cup { path } |-> IF p = path THEN content ELSE fs[p] ]

\* variant of RmTree: a directory made without the with-block, left behind
RmTreeLeaks(fs, dir) == fs

\* leaving the TemporaryDirectory block removes every file under the directory
RmTree(fs, dir) ==
    [ p \in { q \in DOMAIN fs : ~IsUnder(q, dir) } |-> fs[p] ]

\* ------------------------------------------------------------------- JSON
\* A file's content is a sequence of tokens; json.load parses
\*   value ::= string | '[' [ value { ',' value } ] ']'
LBr == << "[" >>
RBr == << "]" >>
Comma == << "," >>
JStr(s) == << "s", s >>

ParseFail == [ ok |-> FALSE, v |-> << >>, next |-> 0 ]

RECURSIVE ParseValue(_, _), ParseItems(_, _, _)
ParseValue(t, i) ==
    IF i > Len(t) THEN ParseFail
    ELSE IF t[i][1] = "s" THEN [ ok |-> TRUE, v |-> t[i][2], next |-> i + 1 ]
    ELSE IF t[i] = LBr
         THEN IF i + 1 <= Len(t) /\ t[i + 1] = RBr
              THEN [ ok |-> TRUE, v |-> << >>, next |-> i + 2 ]
              ELSE ParseItems(t, i + 1, << >>)
         ELSE ParseFail

ParseItems(t, i, acc) ==
    LET r == ParseValue(t, i)
    IN  IF ~r.ok \/ r.next > Len(t) THEN ParseFail
        ELSE IF t[r.next] = Comma THEN ParseItems(t, r.next + 1, Append(acc, r.v))
        ELSE IF t[r.next] = RBr
             THEN [ ok |-> TRUE, v |-> Append(acc, r.v), next |-> r.next + 1 ]
             ELSE ParseFail

\* json.load(f): the value, or JSONDecodeError
JsonLoad(text) ==
    LET r == ParseValue(text, 1)
    IN  IF r.ok /\ r.next = Len(text) + 1
        THEN [ raised |-> "none", value |-> r.v ]
        ELSE [ raised |-> "JSONDecodeError", value |-> << >> ]

\* snapshot files found on disk: a listing, a valid JSON of another shape, an empty file
DocListing ==
    << LBr, LBr, JStr("pkg-a"), Comma, JStr("https://pypi.org/simple/pkg-a/"), RBr, Comma,
            LBr, JStr("pkg-b"), Comma, JStr("https://pypi.org/simple/pkg-b/"), RBr, RBr >>
DocOtherShape == << LBr, LBr, JStr("pkg-a"), RBr, RBr >>
DocEmptyFile == << >>
SnapshotDocs == { DocListing, DocOtherShape, DocEmptyFile }

\* bodies an artifact URL answers with: an archive, or text that happens to be JSON
BodyArchive == << << "bytes", "archive" >> >>
BodyJson == << LBr, LBr, JStr("evil"), Comma, JStr("https://e/"), RBr, RBr >>
Bodies == { BodyArchive, BodyJson }

\* ------------------------------------------------------------ HTML pages
\* An anchor element: its .string (None without a single text child) and its
\* href attribute (NoAttr when the element has none).
NoAttr == << "NoAttr" >>

PkgPrefix == << "p", "k", "g", "-" >>
File19 == PkgPrefix \o << "1", ".", "9" >> \o TarGzSuffix
File110 == PkgPrefix \o << "1", ".", "1", "0" >> \o TarGzSuffix
FileWhl == PkgPrefix \o << "2", ".", "0" >> \o WhlSuffix
FileZip == PkgPrefix \o << "2", ".", "0", ".", "z", "i", "p" >>

ArtifactUrl(c) == Scheme \o << "f", "/", c >>

Anchors ==
    { [ string |-> File19, href |-> ArtifactUrl("a") ],
      [ string |-> File110, href |-> ArtifactUrl("b") ],
      [ string |-> FileWhl, href |-> ArtifactUrl("c") ],
      [ string |-> FileZip, href |-> ArtifactUrl("d") ],
      [ string |-> None, href |-> ArtifactUrl("e") ],
      [ string |-> << "x" >>, href |-> NoAttr ],
      [ string |-> SnapshotPath, href |-> ArtifactUrl("g") ] }

\* the pages a GET can answer with: the anchors of the document, in document order
Pages == UNION { [ 1..k -> Anchors ] : k \in 0..MaxLinks }

\* what requests.get(url) does: raise, or answer with a page
Responses ==
    { [ ok |-> FALSE, anchors |-> << >> ] } \cup { [ ok |-> TRUE, anchors |-> a ] : a \in Pages }

\* ------------------------------------------------------------- get_links
\* variant of GetLinks: the except branch answers an empty list
GetLinksReturnsEmpty(resp) ==
    [ raised |-> "none",
      value |-> IF resp.ok THEN [ i \in 1..Len(resp.anchors) |->
                                   << resp.anchors[i].string, resp.anchors[i].href >> ]
                ELSE << >>,
      log |-> << >> ]

\* get_links(url), given what requests.get did: the exception it ends with
\* ("none" when it returns), the list it returns, the log records it writes
GetLinks(resp) ==
    IF ~resp.ok
    THEN \* the except branch logs and falls through; res was never assigned
         [ raised |-> "UnboundLocalError", value |-> << >>,
           log |-> << << "ERROR", "Failed to make the request" >>,
                      << "DEBUG", "Parsing the HTML content" >> >> ]
    ELSE LET links == resp.anchors
             head == << << "DEBUG", "Successfully made the request" >>,
                        << "DEBUG", "Parsing the HTML content" >>,
                        << "DEBUG", "HTML parsing complete" >>,
                        << "DEBUG", "Extracting links" >>,
                        << "DEBUG", "Extracted links" >> >>
         IN  IF \E i \in 1..Len(links) : links[i].href = NoAttr
             THEN [ raised |-> "KeyError", value |-> << >>, log |-> head ]
             ELSE [ raised |-> "none",
                    value |-> [ i \in 1..Len(links) |-> << links[i].string, links[i].href >> ],
                    log |-> head ]

\* ------------------------------------------------------------------ sort
\* where list.sort puts x in an already sorted list: after every element that
\* is not greater (the sort is stable)
InsertSorted(sorted, x) ==
    LET k == Cardinality({ i \in 1..Len(sorted) : ~StrLess(x[1], sorted[i][1]) })
    IN  SubSeq(sorted, 1, k) \o << x >> \o SubSeq(sorted, k + 1, Len(sorted))

RECURSIVE SortedPrefix(_, _)
SortedPrefix(list, n) ==
    IF n = 0 THEN << >> ELSE InsertSorted(SortedPrefix(list, n - 1), list[n])

\* variant of SortByFilename: sorts in descending order
SortByFilenameReversed(list) ==
    IF Len(list) >= 2 /\ \E i \in 1..Len(list) : list[i][1] = None
    THEN [ raised |-> "TypeError", value |-> list ]
    ELSE LET up == SortedPrefix(list, Len(list))
         IN  [ raised |-> "none",
               value |-> [ i \in 1..Len(list) |-> up[Len(list) + 1 - i] ] ]

\* package_versions.sort(key=lambda x: x[0]): comparing a None key raises TypeError
\* (a list of one element is never compared)
SortByFilename(list) ==
    IF Len(list) >= 2 /\ \E i \in 1..Len(list) : list[i][1] = None
    THEN [ raised |-> "TypeError", value |-> list ]
    ELSE [ raised |-> "none", value |-> SortedPrefix(list, Len(list)) ]

\* variant of LastOf: indexes [0], with an empty list answered by a default
FirstOrDefault(list) ==
    IF list = << >> THEN [ raised |-> "none", value |-> << << >>, << >> >> ]
    ELSE [ raised |-> "none", value |-> list[1] ]

\* package_versions[-1]
LastOf(list) ==
    IF list = << >> THEN [ raised |-> "IndexError", value |-> << >> ]
    ELSE [ raised |-> "none", value |-> list[Len(list)] ]

\* -------------------------------------------------------------- dispatch
\* the if / elif of extract_metadata: dist is bound on two suffixes only
Dispatch(pkgpath) ==
    IF EndsWith(pkgpath, TarGzSuffix) THEN "SDist"
    ELSE IF EndsWith(pkgpath, WhlSuffix) THEN "Wheel"
    ELSE "unbound"

\* -------------------------------------------------------- _add_base_url
\* f"{self.repo_url.rstrip('/simple/')}{url}"
AddBaseUrl(repo_url, url) == RStrip(repo_url, SimpleSuffix) \o url

\* ------------------------------------------------------------ requests
\* variant of Requested: a GET that is sent again
RequestedWithRetry(sent, url) == Append(Append(sent, url), url)

\* requests.get(url): one GET, added to the requests sent so far
Requested(sent, url) == Append(sent, url)

\* -------------------------------------------------------- _get_packages
\* variant of GetPackages: fetches the index although the snapshot exists
GetPackagesAlwaysFetches(fs, url) ==
    LET j == IF OsPathExists(fs, PackagesJson) THEN JsonLoad(fs[SnapshotPath])
             ELSE [ raised |-> "none", value |-> << >> ]
    IN  [ raised |-> j.raised, packages |-> j.value, requests |-> Requested(<< >>, url),
          log |-> << >>, fs |-> fs ]

\* PackageCrawler._get_packages(url) on the file system fs: the exception it ends
\* with, the list it returns, the GETs it sends, its log records, the file system
\* it leaves.  Without the snapshot, self.logger (line 56) is no attribute of the
\* object: AttributeError, before any request or write.
GetPackages(fs, url) ==
    IF OsPathExists(fs, PackagesJson)
    THEN LET j == JsonLoad(fs[SnapshotPath])
         IN  [ raised |-> j.raised, packages |-> j.value, requests |-> << >>,
               log |-> << << "DEBUG", "packages.json exists, skipping request" >> >>,
               fs |-> fs ]
    ELSE [ raised |-> "AttributeError", packages |-> << >>, requests |-> << >>,
           log |-> << >>, fs |-> fs ]

\* ------------------------------------------------------------------ state
VARIABLES
    files,            \* the files on disk: absolute path -> content
    dirs,             \* the directories on disk
    op,               \* the construction under way or last run: "none", "crawler", "package"
    pc,               \* the statement the construction is at (or ended at)
    status,           \* "idle", "running", "done", "failed" (an exception left the constructor)
    error,            \* the exception that ended it, "none" otherwise
    name,             \* Package.name
    repo_url,         \* Package.repo_url
    netError,         \* the exception requests.get raised inside get_links, "none" otherwise
    fetched,          \* what get_links returned to Package.__init__, before the sort
    package_versions, \* Package.package_versions
    latest_version,   \* Package.latest_version, << >> while unset
    metadata,         \* Package.metadata: the reader that parsed it, "unset" while unset
    tmpdir,           \* extract_metadata's tmpdir, << >> before TemporaryDirectory()
    response,         \* extract_metadata's response.content
    pkgpath,          \* extract_metadata's pkgpath
    dist,             \* extract_metadata's dist, "unbound" until assigned
    http,             \* the GETs sent by the current construction, in order
    log,              \* the log records written by the current construction
    prevCrawl,        \* the PackageCrawler construction before the last
    lastCrawl,        \* the last PackageCrawler construction
    jRoot,            \* _add_base_url: self.repo_url
    jHref,            \* _add_base_url: url
    jResult,          \* _add_base_url: the value returned
    jPc               \* _add_base_url: "idle", "call", "done"

fsVars == << files, dirs >>
ctlVars == << op, pc, status, error >>
pkgVars == << name, repo_url, netError, fetched, package_versions, latest_version,
              metadata, tmpdir, response, pkgpath, dist >>
ioVars == << http, log >>
crawlVars == << prevCrawl, lastCrawl >>
joinVars == << jRoot, jHref, jResult, jPc >>
vars == << fsVars, ctlVars, pkgVars, ioVars, crawlVars, joinVars >>

\* ------------------------------------------------------------------ inputs
Names == { << "p", "a", "n", "d", "a", "s" >>, << "p", "k", "g" >> }
RepoUrls == { DefaultRepoUrl, MirrorRepoUrl }

NoCrawl == [ existed |-> FALSE, snap |-> << >>, raised |-> "never", packages |-> << >>,
             requests |-> 0 ]

NoFiles == [ p \in { } |-> << >> ]

\* ------------------------------------------------------------------- Init
MainIdle ==
    /\ dirs = { Cwd, TmpRoot }
    /\ op = "none" /\ pc = "none" /\ status = "idle" /\ error = "none"
    /\ name = << >> /\ repo_url = << >> /\ netError = "none"
    /\ fetched = << >> /\ package_versions = << >> /\ latest_version = << >>
    /\ metadata = "unset" /\ tmpdir = << >> /\ response = << >>
    /\ pkgpath = << >> /\ dist = "unbound"
    /\ http = << >> /\ log = << >>
    /\ prevCrawl = NoCrawl /\ lastCrawl = NoCrawl

JoinIdle == jRoot = << >> /\ jHref = << >> /\ jResult = << >> /\ jPc = "idle"

\* the process starts with or without a snapshot in the working directory
Init ==
    /\ files \in { NoFiles } \cup { WriteFile(NoFiles, SnapshotPath, d) : d \in SnapshotDocs }
    /\ MainIdle
    /\ JoinIdle

\* ---------------------------------------------------------------- actions
\* an exception or a return leaves the with-block: the directory is removed
TmpExit(fs) ==
    /\ files' = RmTree(fs, tmpdir)
    /\ dirs' = dirs \ { tmpdir }

Raise(e) == status' = "failed" /\ error' = e

\* PackageCrawler(url): __init__ and _get_packages
PackageCrawlerInit ==
    /\ status # "running"
    /\ \E url \in RepoUrls :
         LET r == GetPackages(files, url)
         IN  /\ op' = "crawler" /\ pc' = "get_packages"
             /\ status' = IF r.raised = "none" THEN "done" ELSE "failed"
             /\ error' = r.raised
             /\ http' = r.requests
             /\ log' = r.log
             /\ files' = r.fs
             /\ prevCrawl' = lastCrawl
             /\ lastCrawl' = [ existed |-> OsPathExists(files, PackagesJson),
                               snap |-> IF OsPathExists(files, PackagesJson)
                                        THEN files[SnapshotPath] ELSE << >>,
                               raised |-> r.raised,
                               packages |-> r.packages,
                               requests |-> Len(r.requests) ]
    /\ UNCHANGED << dirs, pkgVars, joinVars >>

\* Package(name, repo_url): lines 102-103
PackageInit ==
    /\ status # "running"
    /\ \E n \in Names, r \in RepoUrls :
         /\ name' = n
         /\ repo_url' = r
    /\ op' = "package" /\ pc' = "get_links" /\ status' = "running" /\ error' = "none"
    /\ netError' = "none" /\ fetched' = << >> /\ package_versions' = << >>
    /\ latest_version' = << >> /\ metadata' = "unset" /\ tmpdir' = << >>
    /\ response' = << >> /\ pkgpath' = << >> /\ dist' = "unbound"
    /\ http' = << >> /\ log' = << >>
    /\ UNCHANGED << fsVars, crawlVars, joinVars >>

Running(at) == op = "package" /\ status = "running" /\ pc = at

\* line 104: self.package_versions = get_links(self.repo_url + name)
PkgGetLinks ==
    /\ Running("get_links")
    /\ \E resp \in Responses :
         LET r == GetLinks(resp)
         IN  /\ http' = Requested(http, repo_url \o name)
             /\ log' = log \o r.log
             /\ netError' = IF resp.ok THEN "none" ELSE "ConnectionError"
             /\ IF r.raised = "none"
                THEN /\ fetched' = r.value
                     /\ package_versions' = r.value
                     /\ pc' = "sort"
                     /\ UNCHANGED << status, error >>
                ELSE /\ Raise(r.raised)
                     /\ UNCHANGED << fetched, package_versions, pc >>
    /\ UNCHANGED << fsVars, op, name, repo_url, latest_version, metadata, tmpdir,
                    response, pkgpath, dist, crawlVars, joinVars >>

\* line 105: self.package_versions.sort(key=lambda x: x[0])
PkgSort ==
    /\ Running("sort")
    /\ LET r == SortByFilename(package_versions)
       IN  IF r.raised = "none"
           THEN /\ package_versions' = r.value
                /\ pc' = "select"
                /\ UNCHANGED << status, error >>
           ELSE /\ Raise(r.raised)
                /\ UNCHANGED << package_versions, pc >>
    /\ UNCHANGED << fsVars, op, name, repo_url, netError, fetched, latest_version,
                    metadata, tmpdir, response, pkgpath, dist, ioVars, crawlVars, joinVars >>

\* line 106: self.latest_version = self.package_versions[-1]
PkgSelect ==
    /\ Running("select")
    /\ LET r == LastOf(package_versions)
       IN  IF r.raised = "none"
           THEN /\ latest_version' = r.value
                /\ pc' = "tmpdir"
                /\ UNCHANGED << status, error >>
           ELSE /\ Raise(r.raised)
                /\ UNCHANGED << latest_version, pc >>
    /\ UNCHANGED << fsVars, op, name, repo_url, netError, fetched, package_versions,
                    metadata, tmpdir, response, pkgpath, dist, ioVars, crawlVars, joinVars >>

\* lines 107, 110: extract_metadata(*self.latest_version) enters the with-block
PkgEnterTmp ==
    /\ Running("tmpdir")
    /\ tmpdir' = TmpDirPath
    /\ dirs' = dirs \cup { TmpDirPath }
    /\ pc' = "download"
    /\ UNCHANGED << files, op, status, error, name, repo_url, netError, fetched,
                    package_versions, latest_version, metadata, response, pkgpath, dist,
                    ioVars, crawlVars, joinVars >>

\* lines 111-113: response = requests.get(url)
PkgDownload ==
    /\ Running("download")
    /\ http' = Requested(http, latest_version[2])
    /\ \E ok \in BOOLEAN, body \in Bodies :
         IF ok
         THEN /\ response' = body
              /\ log' = log \o << << "DEBUG", "Downloading" >>,
                                  << "DEBUG", "Received response" >> >>
              /\ pc' = "write"
              /\ UNCHANGED << fsVars, status, error >>
         ELSE /\ Raise("ConnectionError")
              /\ log' = Append(log, << "DEBUG", "Downloading" >>)
              /\ TmpExit(files)
              /\ UNCHANGED << response, pc >>
    /\ UNCHANGED << op, name, repo_url, netError, fetched, package_versions,
                    latest_version, metadata, tmpdir, pkgpath, dist, crawlVars, joinVars >>

\* lines 114-117: pkgpath = os.path.join(tmpdir, filename); open(pkgpath, 'wb'); write
PkgWrite ==
    /\ Running("write")
    /\ IF latest_version[1] = None
       THEN \* os.path.join(tmpdir, None)
            /\ Raise("TypeError")
            /\ TmpExit(files)
            /\ UNCHANGED << pkgpath, pc, log >>
       ELSE LET path == OsPathJoin(tmpdir, latest_version[1])
            IN  /\ pkgpath' = path
                /\ \E written \in BOOLEAN :
                     IF DirName(path) \notin dirs
                     THEN /\ Raise("FileNotFoundError")
                          /\ TmpExit(files)
                          /\ UNCHANGED << pc, log >>
                     ELSE IF ~written
                     THEN \* open truncated or created the file, f.write failed
                          /\ Raise("OSError")
                          /\ TmpExit(WriteFile(files, path, << >>))
                          /\ UNCHANGED << pc, log >>
                     ELSE /\ files' = WriteFile(files, path, response)
                          /\ log' = Append(log, << "DEBUG", "Saved package" >>)
                          /\ pc' = "dispatch"
                          /\ UNCHANGED << dirs, status, error >>
    /\ UNCHANGED << op, name, repo_url, netError, fetched, package_versions,
                    latest_version, metadata, tmpdir, response, dist, http, crawlVars,
                    joinVars >>

\* lines 119-122: the if / elif on pkgpath's suffix
PkgDispatch ==
    /\ Running("dispatch")
    /\ dist' = Dispatch(pkgpath)
    /\ pc' = "parse"
    /\ UNCHANGED << fsVars, op, status, error, name, repo_url, netError, fetched,
                    package_versions, latest_version, metadata, tmpdir, response, pkgpath,
                    ioVars, crawlVars, joinVars >>

\* lines 123-125, 107: pkg = dist(pkgpath); return pkg; self.metadata = ...
PkgParse ==
    /\ Running("parse")
    /\ IF dist = "unbound"
       THEN /\ Raise("UnboundLocalError")
            /\ UNCHANGED metadata
       ELSE \E readable \in BOOLEAN :
              IF readable /\ response = BodyArchive
              THEN /\ metadata' = dist
                   /\ status' = "done"
                   /\ UNCHANGED error
              ELSE /\ Raise("ValueError")
                   /\ UNCHANGED metadata
    /\ TmpExit(files)
    /\ UNCHANGED << op, pc, name, repo_url, netError, fetched, package_versions,
                    latest_version, tmpdir, response, pkgpath, dist, ioVars, crawlVars,
                    joinVars >>

Next ==
    \/ PackageCrawlerInit
    \/ PackageInit
    \/ PkgGetLinks
    \/ PkgSort
    \/ PkgSelect
    \/ PkgEnterTmp
    \/ PkgDownload
    \/ PkgWrite
    \/ PkgDispatch
    \/ PkgParse

Spec == Init /\ [][Next]_vars

\* ------------------------------------------- _add_base_url on its own
\* index roots: a scheme, a host of up to MaxHostLen characters, a tail
HostChars == { "a", "m", "o", "." }
Hosts == UNION { [ 1..k -> HostChars ] : k \in 1..MaxHostLen }
Roots == { Scheme \o h \o tail : h \in Hosts, tail \in { SimpleSuffix, << "/" >> } }
Hrefs == { SimpleSuffix \o PkgPrefix \o << "a", "/" >>, PkgPrefix \o << "a", "/" >> }

JoinInit ==
    /\ files = NoFiles
    /\ MainIdle
    /\ jRoot \in Roots
    /\ jHref \in Hrefs
    /\ jResult = << >>
    /\ jPc = "call"

\* lines 28-29: crawler._add_base_url(url) with self.repo_url = jRoot
AddBaseUrlCall ==
    /\ jPc = "call"
    /\ jResult' = AddBaseUrl(jRoot, jHref)
    /\ jPc' = "done"
    /\ UNCHANGED << jRoot, jHref, fsVars, ctlVars, pkgVars, ioVars, crawlVars >>

JoinNext == AddBaseUrlCall

SpecJoin == JoinInit /\ [][JoinNext]_vars

\* =================================================================== claims
Crawls == { c \in { prevCrawl, lastCrawl } : c.raised # "never" }

PastSelect == pc \notin { "get_links", "sort", "select" }

HasNoneLabel(list) == \E i \in 1..Len(list) : list[i][1] = None

InTmpBlock ==
    op = "package" /\ status = "running" /\ pc \in { "download", "write", "dispatch", "parse" }

\* C1: a PackageCrawler constructed while packages.json exists sends no GET, and
\* its listing is the parsed content of the file (it raises JSONDecodeError when the
\* file is no JSON); two constructions over the same content give the same listing.
C1_SnapshotLoadIsNetworkFree ==
    /\ \A c \in Crawls :
         c.existed =>
           /\ c.requests = 0
           /\ c.snap = DocListing =>
                /\ c.raised = "none"
                /\ c.packages = << << "pkg-a", "https://pypi.org/simple/pkg-a/" >>,
                                   << "pkg-b", "https://pypi.org/simple/pkg-b/" >> >>
           /\ c.snap = DocOtherShape => c.raised = "none" /\ c.packages = << << "pkg-a" >> >>
           /\ c.snap = DocEmptyFile => c.raised = "JSONDecodeError"
           /\ c.raised \in { "none", "JSONDecodeError" }
    /\ (prevCrawl.existed /\ lastCrawl.existed /\ prevCrawl.snap = lastCrawl.snap)
         => (prevCrawl.packages = lastCrawl.packages /\ prevCrawl.raised = lastCrawl.raised)
    /\ (op = "crawler" /\ lastCrawl.existed) => http = << >>

C1_Witness ==
    /\ prevCrawl.existed /\ lastCrawl.existed
    /\ prevCrawl.snap = DocListing /\ lastCrawl.snap = DocListing
    /\ lastCrawl.raised = "none" /\ Len(lastCrawl.packages) = 2
    /\ op = "crawler" /\ status = "done"

\* C2 (as claimed): a PackageCrawler constructed without packages.json completes,
\* and leaves a packages.json whose content parses to its listing.
C2_ColdStartCompletes ==
    (op = "crawler" /\ ~lastCrawl.existed) =>
        /\ status = "done"
        /\ OsPathExists(files, PackagesJson)
        /\ JsonLoad(files[SnapshotPath]).value = lastCrawl.packages

\* C3: when get_links returns a non-empty list whose filenames are all str, the
\* construction gets past the sort and the selection, and latest_version is one of
\* the returned links with no returned filename greater than its own under str
\* comparison: of pkg-1.9.tar.gz and pkg-1.10.tar.gz it is pkg-1.9.tar.gz.
C3_LatestIsLexicographicMax ==
    (op = "package" /\ pc # "get_links" /\ fetched # << >> /\ ~HasNoneLabel(fetched)) =>
        /\ pc \in { "sort", "select" } => status = "running"
        /\ PastSelect =>
             /\ \E i \in 1..Len(fetched) : fetched[i] = latest_version
             /\ \A i \in 1..Len(fetched) : ~StrLess(latest_version[1], fetched[i][1])
             /\ { fetched[i][1] : i \in 1..Len(fetched) } = { File19, File110 }
                  => latest_version[1] = File19
             /\ { fetched[i][1] : i \in 1..Len(fetched) } = { File19, FileWhl }
                  => latest_version[1] = FileWhl

C3_Witness ==
    /\ op = "package"
    /\ fetched = << << File19, ArtifactUrl("a") >>, << File110, ArtifactUrl("b") >> >>
    /\ latest_version = << File19, ArtifactUrl("a") >>

\* C4: when get_links returns an empty list the construction ends at line 106 with
\* IndexError and in no other way; latest_version and metadata stay unset.
C4_EmptyListRaisesIndexError ==
    (op = "package" /\ pc # "get_links" /\ fetched = << >>) =>
        /\ pc \in { "sort", "select" }
        /\ status \in { "running", "failed" }
        /\ status = "failed" => (pc = "select" /\ error = "IndexError")
        /\ latest_version = << >>
        /\ metadata = "unset"

C4_Witness ==
    /\ op = "package" /\ pc = "select" /\ fetched = << >>
    /\ status = "failed" /\ error = "IndexError"

\* C5: outside the with-block of extract_metadata (before it, and once it has
\* returned or raised) the temporary directory does not exist and no file is
\* under its path.
C5_TmpDirRemoved ==
    ~InTmpBlock =>
        /\ TmpDirPath \notin dirs
        /\ \A p \in DOMAIN files : ~IsUnder(p, TmpDirPath)

C5_Witness ==
    /\ op = "package" /\ pc = "parse" /\ status \in { "done", "failed" }
    /\ IsUnder(pkgpath, TmpDirPath)
    /\ tmpdir = TmpDirPath

\* C6 (as claimed): a construction that reaches the reader with a filename ending
\* in neither .tar.gz nor .whl fails with an "unsupported format" error.
C6_UnsupportedFormatError ==
    (/\ op = "package" /\ pc = "parse" /\ status # "running"
     /\ ~EndsWith(latest_version[1], TarGzSuffix)
     /\ ~EndsWith(latest_version[1], WhlSuffix))
        => (status = "failed" /\ error = "UnsupportedFormat")

\* C7: when requests.get raises inside get_links the exception is logged and not
\* propagated, the parse step is entered, and the call ends with the
\* UnboundLocalError of the unassigned res: no list, not even an empty one, is
\* returned to the caller.
C7_NetworkFailureEndsInSecondaryError ==
    (op = "package" /\ netError # "none") =>
        /\ status = "failed" /\ pc = "get_links"
        /\ error = "UnboundLocalError" /\ error # netError
        /\ \E i \in 1..Len(log) :
             /\ log[i] = << "ERROR", "Failed to make the request" >>
             /\ i < Len(log) /\ log[i + 1] = << "DEBUG", "Parsing the HTML content" >>
        /\ fetched = << >> /\ package_versions = << >>
        /\ Len(http) = 1

C7_Witness ==
    op = "package" /\ netError = "ConnectionError" /\ status = "failed" /\ Len(http) = 1

\* C8 (as claimed): for a root ending in '/simple/', _add_base_url returns the root
\* without its last Len('/simple/') characters, followed by the href.
C8_SuffixTrimmedExactly ==
    (jPc = "done" /\ EndsWith(jRoot, SimpleSuffix)) =>
        jResult = SubSeq(jRoot, 1, Len(jRoot) - Len(SimpleSuffix)) \o jHref

\* C9 (as claimed): packages.json changes only in a PackageCrawler construction
\* that found it absent, an existing packages.json keeps its content, and a
\* PackageCrawler constructed over an existing packages.json sends no GET.
C9_SnapshotWrittenOnceByCrawler ==
    /\ [][ /\ OsPathExists(files, PackagesJson) =>
                /\ OsPathExists(files', PackagesJson)
                /\ files'[SnapshotPath] = files[SnapshotPath]
           /\ (~OsPathExists(files, PackagesJson) /\ OsPathExists(files', PackagesJson))
                => op' = "crawler" ]_vars
    /\ [](\A c \in Crawls : c.existed => c.requests = 0)

\* C10: the GETs of one Package construction are a prefix of
\* << repo_url + name, the URL of latest_version >>, nothing is sent twice, a
\* completed construction has sent both, and one that ended on an empty list has sent
\* the first only and has made no temporary directory.
C10_RequestsArePrefix ==
    op = "package" =>
        /\ Len(http) <= 2
        /\ (status = "running" /\ pc = "get_links") => http = << >>
        /\ ~(status = "running" /\ pc = "get_links") => (Len(http) >= 1 /\ http[1] = repo_url \o name)
        /\ Len(http) = 2 =>
             /\ latest_version # << >>
             /\ http[2] = latest_version[2]
             /\ pc \notin { "get_links", "sort", "select", "tmpdir" }
        /\ pc \in { "write", "dispatch", "parse" } => Len(http) = 2
        /\ status = "done" => Len(http) = 2
        /\ (status = "failed" /\ pc = "select") =>
             (Len(http) = 1 /\ tmpdir = << >> /\ TmpDirPath \notin dirs)

C10_Witness ==
    /\ op = "package" /\ status = "done" /\ Len(http) = 2
    /\ http[1] = DefaultRepoUrl \o << "p", "a", "n", "d", "a", "s" >>
    /\ http[2] = latest_version[2]

====
